---- MODULE Spec2Model ----
(***************************************************************************)
(* Seam carving engine: seam finding (greedy and dynamic programming),     *)
(* seam removal, CPU and GPU energy backends and the iterative width       *)
(* reduction driver.                                                       *)
(*                                                                         *)
(* Vectors are functions over 0..n-1 so that indices are the source's.     *)
(* Energies are modelled by integers: every sum the code forms on them is  *)
(* then exact, as it is for floats holding small integers.                 *)
(***************************************************************************)
EXTENDS Integers, Sequences, FiniteSets, TLC

VARIABLES
    \* find_low_energy_seam call: arguments and outcome
    sf_energy, sf_width, sf_height, sf_outcome,
    \* remove_seam call: arguments (rs_seed generates the input image) and result
    rs_pixels, rs_seed, rs_width, rs_height, rs_channels, rs_seam, rs_result,
    \* GPUEnergy module state, and the GL objects alive on the device
    shader_program, input_texture, framebuffer, energy_texture, quad_vao, quad_vbo,
    initialized, gl_objects, gl_input_image, gl_energy_image, gpu_call,
    \* compute-energy calls: the image the caller passes (en_seed generates the
    \* samples), and the backend and the result of the last call
    en_backend, en_seed, en_width, en_height, en_channels, en_result,
    \* two callers of calculate_energy_gpu: where each is in its call, the image
    \* it passes and what it got back; and whether the callers take turns
    call_pc, call_image, call_result, serialized,
    \* reduce_width_iteratively: arguments
    rw_pixels, rw_original_width, rw_height, rw_channels, rw_target_width, rw_algorithm,
    \* its locals, the position in its body, and what it returned
    pc, rw_current_pixels, rw_current_width, rw_seams_to_remove, rw_seams_removed,
    rw_progress_update_interval, rw_batch_start_time, rw_start_time, rw_energy, rw_seam, rw_result,
    \* the environment it reads: the clock and the log level; the last line logged
    now, spdlog_level, last_log,
    \* calls made by the current call into the three components
    steps,
    \* the caller: which of its two calls with these arguments is running, and
    \* what the first one returned
    run, first_run

seamVars == <<sf_energy, sf_width, sf_height, sf_outcome>>

removeVars == <<rs_pixels, rs_seed, rs_width, rs_height, rs_channels, rs_seam, rs_result>>

gpuVars == <<shader_program, input_texture, framebuffer, energy_texture, quad_vao,
             quad_vbo, initialized, gl_objects, gl_input_image, gl_energy_image,
             gpu_call>>

callVars == <<call_pc, call_image, call_result, serialized>>

energyVars == <<en_backend, en_seed, en_width, en_height, en_channels, en_result, callVars>>

argVars == <<rw_pixels, rw_original_width, rw_height, rw_channels, rw_target_width, rw_algorithm>>

localVars == <<pc, rw_current_pixels, rw_current_width, rw_seams_to_remove, rw_seams_removed,
               rw_progress_update_interval, rw_batch_start_time, rw_start_time, rw_energy, rw_seam,
               rw_result>>

envVars == <<now, spdlog_level, last_log>>

driverVars == <<argVars, localVars, envVars, steps, run, first_run>>

vars == <<seamVars, removeVars, gpuVars, energyVars, driverVars>>

(***************************************************************************)
(* Bounds                                                                  *)
(***************************************************************************)
\* largest width of an energy matrix handed to the seam finder
MaxEW == 3
\* largest height of an energy matrix handed to the seam finder
MaxEH == 3
\* and the most cells such a matrix has
MaxCells == 9
\* energies of the matrices handed to the seam finder are 0..MaxEnergy
MaxEnergy == 1
\* largest width and height of a buffer handed to remove_seam
MaxRW == 3
MaxRH == 3
\* largest width and height of an image handed to an energy backend
MaxW == 3
MaxH == 3
\* samples of those images are 0..MaxByte
MaxByte == 9
\* largest width and height of an image handed to reduce_width_iteratively
MaxDW == 3
MaxDH == 3
\* width of the one-row strip that takes enough seams for the progress
\* interval to exceed 1
WideW == 21
\* the clock reads 0..MaxClock milliseconds and advances by ClockStep or not at
\* all between two readings
MaxClock == 120
ClockStep == 60
\* GL object names the device hands out, per kind of object, are 1..MaxGLNames
MaxGLNames == 4

(***************************************************************************)
(* Helpers                                                                 *)
(***************************************************************************)
Vec(n, v) == [i \in 0..(n - 1) |-> v]

Len0(f) == Cardinality(DOMAIN f)

Abs(i) == IF i < 0 THEN -i ELSE i

No == [kind |-> "none"]

Algorithms == {"GREEDY", "DYNAMIC"}

\* samples per pixel a caller may pass
ChannelCounts == {1, 3, 4}

\* the test images: n samples, sample i holding (seed + step * i) modulo m
Image(n, seed, step, m) == [i \in 0..(n - 1) |-> (seed + step * i) % m]

ImageSeeds == {0, 250}

\* the images handed to the energy backends: samples within 0..MaxByte
PaletteSeeds == {0, 3}

PaletteImage(n, seed) == Image(n, seed, 7, MaxByte + 1)

(***************************************************************************)
(* SeamCarving::find_low_energy_seam_greedy                                *)
(***************************************************************************)
RECURSIVE GreedyFirstRowLast(_, _, _, _)
GreedyFirstRowLast(row, width, x, min_x) ==
    IF x >= width THEN min_x
    ELSE GreedyFirstRowLast(row, width, x + 1, IF row[x] <= row[min_x] THEN x ELSE min_x)

\* the scan of row 0 for the first minimum (lines 18-25): min_energy is row[min_x]
RECURSIVE GreedyFirstRow(_, _, _, _)
GreedyFirstRow(row, width, x, min_x) ==
    IF x >= width THEN min_x
    ELSE GreedyFirstRow(row, width, x + 1, IF row[x] < row[min_x] THEN x ELSE min_x)

GreedyNeighbourRightFirst(row, width, current_x) ==
    LET after_right == IF current_x < width - 1 /\ row[current_x + 1] < row[current_x]
                       THEN current_x + 1 ELSE current_x
    IN  IF current_x > 0 /\ row[current_x - 1] < row[after_right]
        THEN current_x - 1 ELSE after_right

\* the choice among current_x, its left and its right neighbour (lines 30-46)
GreedyNeighbour(row, width, current_x) ==
    LET after_left == IF current_x > 0 /\ row[current_x - 1] < row[current_x]
                      THEN current_x - 1 ELSE current_x
    IN  IF current_x < width - 1 /\ row[current_x + 1] < row[after_left]
        THEN current_x + 1 ELSE after_left

RECURSIVE GreedyRows(_, _, _, _, _)
GreedyRows(energy, width, height, y, seam) ==
    IF y >= height THEN seam
    ELSE GreedyRows(energy, width, height, y + 1,
                    [seam EXCEPT ![y] = GreedyNeighbour(energy[y], width, seam[y - 1])])

find_low_energy_seam_greedy(energy, width, height) ==
    GreedyRows(energy, width, height, 1,
               [Vec(height, 0) EXCEPT ![0] = GreedyFirstRow(energy[0], width, 1, 0)])

(***************************************************************************)
(* SeamCarving::find_low_energy_seam_dyn                                   *)
(***************************************************************************)
Min2(a, b) == IF b < a THEN b ELSE a

\* one cell of the cumulative table (lines 72-82)
DpCellNoRight(prev, erow, width, x) ==
    LET above == prev[x] + erow[x]
    IN  IF x > 0 THEN Min2(above, prev[x - 1] + erow[x]) ELSE above

DpCell(prev, erow, width, x) ==
    LET above == prev[x] + erow[x]
        left  == IF x > 0 THEN Min2(above, prev[x - 1] + erow[x]) ELSE above
    IN  IF x < width - 1 THEN Min2(left, prev[x + 1] + erow[x]) ELSE left

\* steps 1-3: the table, row 0 copied from the energy, then row by row
RECURSIVE DpRows(_, _, _, _, _)
DpRows(energy, width, height, y, dp) ==
    IF y >= height THEN dp
    ELSE DpRows(energy, width, height, y + 1,
                [dp EXCEPT ![y] = [x \in 0..(width - 1) |->
                                      DpCell(dp[y - 1], energy[y], width, x)]])

DpTable(energy, width, height) ==
    DpRows(energy, width, height, 1,
           [Vec(height, Vec(width, 0)) EXCEPT
                ![0] = [x \in 0..(width - 1) |-> energy[0][x]]])

RECURSIVE DpMinEndLast(_, _, _, _)
DpMinEndLast(row, width, x, min_end_x) ==
    IF x >= width THEN min_end_x
    ELSE DpMinEndLast(row, width, x + 1, IF row[x] <= row[min_end_x] THEN x ELSE min_end_x)

\* step 4: the first minimum of the bottom row (lines 87-94)
RECURSIVE DpMinEnd(_, _, _, _)
DpMinEnd(row, width, x, min_end_x) ==
    IF x >= width THEN min_end_x
    ELSE DpMinEnd(row, width, x + 1, IF row[x] < row[min_end_x] THEN x ELSE min_end_x)

\* step 5: the predecessor re-derived from row y of the table (lines 101-118)
DpBacktrackRowMin(dprow, width, current_x) == DpMinEnd(dprow, width, 1, 0)

DpBacktrack(dprow, width, current_x) ==
    LET after_left == IF current_x > 0 /\ dprow[current_x - 1] < dprow[current_x]
                      THEN current_x - 1 ELSE current_x
    IN  IF current_x < width - 1 /\ dprow[current_x + 1] < dprow[after_left]
        THEN current_x + 1 ELSE after_left

DpBackRowsStraight(dp, width, y, seam) == [r \in DOMAIN seam |-> seam[y + 1]]

RECURSIVE DpBackRows(_, _, _, _)
DpBackRows(dp, width, y, seam) ==
    IF y < 0 THEN seam
    ELSE DpBackRows(dp, width, y - 1,
                    [seam EXCEPT ![y] = DpBacktrack(dp[y], width, seam[y + 1])])

find_low_energy_seam_dyn(energy, width, height) ==
    LET dp == DpTable(energy, width, height)
    IN  DpBackRows(dp, width, height - 2,
                   [Vec(height, 0) EXCEPT
                        ![height - 1] = DpMinEnd(dp[height - 1], width, 1, 0)])

(***************************************************************************)
(* SeamCarving::find_low_energy_seam                                       *)
(*                                                                         *)
(* An outcome is "ok" (a seam is returned), "error" (an exception leaves   *)
(* the call) or "crash" (the process dies).  read_energy tells whether the *)
(* call read, or tried to read, a cell of the energy matrix.               *)
(*                                                                         *)
(* Neither variant checks its arguments.  With a negative size the first   *)
(* vector construction throws std::length_error.  With width = 0 or        *)
(* height = 0 the code indexes an empty vector: undefined behaviour,       *)
(* modelled as the choice between a crash and running on with the value    *)
(* read, which then decides nothing.                                       *)
(***************************************************************************)
Ok(seam, reads) == [status |-> "ok", seam |-> seam, read_energy |-> reads]
Thrown == [status |-> "error", seam |-> Vec(0, 0), read_energy |-> FALSE]
Crash(reads) == [status |-> "crash", seam |-> Vec(0, 0), read_energy |-> reads]

GreedyOutcomes(energy, width, height) ==
    IF height < 0 THEN {Thrown}                            \* seam(height), line 15
    ELSE IF height = 0 THEN {Crash(TRUE), Ok(Vec(0, 0), TRUE)}   \* energy[0][0], seam[0]
    ELSE IF width < 1 THEN {Crash(TRUE), Ok(Vec(height, 0), TRUE)}  \* energy[y][0]
    ELSE {Ok(find_low_energy_seam_greedy(energy, width, height), TRUE)}

DynOutcomes(energy, width, height) ==
    IF height < 0 \/ width < 0 THEN {Thrown}               \* dp(height, row(width)), line 58
    ELSE IF height = 0 THEN {Crash(width >= 1), Ok(Vec(0, 0), width >= 1)} \* dp[-1][0]
    ELSE IF width = 0 THEN {Crash(FALSE), Ok(Vec(height, 0), FALSE)}    \* dp[height-1][0]
    ELSE {Ok(find_low_energy_seam_dyn(energy, width, height), TRUE)}

find_low_energy_seam(energy, width, height, algorithm) ==
    IF algorithm = "DYNAMIC" THEN DynOutcomes(energy, width, height)
    ELSE GreedyOutcomes(energy, width, height)

(***************************************************************************)
(* SeamCarving::remove_seam                                                *)
(***************************************************************************)
\* dst_idx of line 193
DstIdxOldWidth(y, new_width, result_idx, channels) ==
    (y * (new_width + 1) + result_idx) * channels

DstIdx(y, new_width, result_idx, channels) == (y * new_width + result_idx) * channels

\* the channel loop of lines 195-197
CopyPixel(result, pixels, src_idx, dst_idx, channels) ==
    [i \in DOMAIN result |->
        IF i \in dst_idx..(dst_idx + channels - 1)
        THEN pixels[src_idx + (i - dst_idx)] ELSE result[i]]

\* the column loop of lines 189-200 for row y
RECURSIVE RemoveCols(_, _, _, _, _, _, _, _)
RemoveCols(pixels, width, channels, seam_x, y, x, result_idx, result) ==
    IF x >= width THEN result
    ELSE IF x # seam_x
    THEN RemoveCols(pixels, width, channels, seam_x, y, x + 1, result_idx + 1,
                    CopyPixel(result, pixels, (y * width + x) * channels,
                              DstIdx(y, width - 1, result_idx, channels), channels))
    ELSE RemoveCols(pixels, width, channels, seam_x, y, x + 1, result_idx, result)

\* the row loop of lines 185-201
RECURSIVE RemoveRows(_, _, _, _, _, _, _)
RemoveRows(pixels, width, height, channels, seam, y, result) ==
    IF y >= height THEN result
    ELSE RemoveRows(pixels, width, height, channels, seam, y + 1,
                    RemoveCols(pixels, width, channels, seam[y], y, 0, 0, result))

\* lines 181-203 for a seam that has an entry for every row; a write outside
\* the result lands outside the vector and is not part of what is returned
remove_seam(pixels, width, height, channels, seam) ==
    RemoveRows(pixels, width, height, channels, seam, 0,
               Vec((width - 1) * height * channels, 0))

\* seam[y] of line 186: operator[] does not check, and a read past the end of
\* the seam is undefined and yields some int
SeamRead(seam, y, garbage) == IF y \in DOMAIN seam THEN seam[y] ELSE garbage

SeamAsRead(seam, height, garbage) == [y \in 0..(height - 1) |-> SeamRead(seam, y, garbage)]

\* the pixels the column loop copies in a row: all but column seam_x, which
\* is all of them when seam_x is no column of the row (line 190)
CopiedInRow(width, seam_x) == IF seam_x \in 0..(width - 1) THEN width - 1 ELSE width

\* the indices result[dst_idx + c] written by lines 193-197
WrittenIndices(width, height, channels, seam) ==
    UNION {UNION {DstIdx(y, width - 1, k, channels)
                      ..(DstIdx(y, width - 1, k, channels) + channels - 1) :
                  k \in 0..(CopiedInRow(width, seam[y]) - 1)} :
           y \in 0..(height - 1)}

\* an outcome of remove_seam: out_of_bounds tells whether the call read past
\* the seam or wrote past the result
Removed(pixels, out_of_bounds) ==
    [status |-> "ok", pixels |-> pixels, out_of_bounds |-> out_of_bounds]

RemoveCrash == [status |-> "crash", pixels |-> Vec(0, 0), out_of_bounds |-> TRUE]

\* nothing is checked (lines 181-203): an out-of-bounds access is undefined,
\* and the call crashes or runs on and returns what it built
RemoveOutcomes(pixels, width, height, channels, seam) ==
    LET short == Len0(seam) < height
        OutcomesFor(as_read) ==
            LET oob == short \/ ~(WrittenIndices(width, height, channels, as_read)
                                    \subseteq 0..((width - 1) * height * channels - 1))
            IN  {Removed(remove_seam(pixels, width, height, channels, as_read), oob)}
                    \cup (IF oob THEN {RemoveCrash} ELSE {})
    IN  UNION {OutcomesFor(SeamAsRead(seam, height, g)) :
                  g \in IF short THEN -1..width ELSE {0}}

(***************************************************************************)
(* SeamCarving::calculate_energy                                           *)
(*                                                                         *)
(* Fixed point: the luminance weights 0.299, 0.587, 0.114 are 299, 587,    *)
(* 114, so luminance, gradients and energy are in thousandths, and the     *)
(* energy is the integer square root of gx*gx + gy*gy.                     *)
(***************************************************************************)
sobel_x == <<<<-1, 0, 1>>, <<-2, 0, 2>>, <<-1, 0, 1>>>>

sobel_y == <<<<-1, -2, -1>>, <<0, 0, 0>>, <<1, 2, 1>>>>

RECURSIVE IsqrtFrom(_, _, _)
IsqrtFrom(n, lo, hi) ==
    IF lo >= hi THEN lo
    ELSE LET mid == (lo + hi + 1) \div 2
         IN  IF mid * mid <= n THEN IsqrtFrom(n, mid, hi) ELSE IsqrtFrom(n, lo, mid - 1)

\* sqrt of line 166, rounded down
Isqrt(n) == IsqrtFrom(n, 0, 46340)

\* pixels[idx]; a read past the buffer is undefined and yields oob
Sample(pixels, idx, oob) == IF idx \in DOMAIN pixels THEN pixels[idx] ELSE oob

\* line 159
Gray(pixels, idx, oob) ==
    299 * Sample(pixels, idx, oob) + 587 * Sample(pixels, idx + 1, oob)
        + 114 * Sample(pixels, idx + 2, oob)

\* lines 154-164: the sum over the 3x3 window, k = 3 * (ky + 1) + (kx + 1)
RECURSIVE Convolve(_, _, _, _, _, _, _, _)
Convolve(kernel, pixels, width, channels, x, y, oob, k) ==
    IF k > 8 THEN 0
    ELSE LET ky == (k \div 3) - 1
             kx == (k % 3) - 1
             idx == ((y + ky) * width + (x + kx)) * channels
         IN  Gray(pixels, idx, oob) * kernel[ky + 2][kx + 2]
               + Convolve(kernel, pixels, width, channels, x, y, oob, k + 1)

\* the loop bounds of lines 149-150: only cells with a full window are computed
InteriorFromZero(x, y, width, height) ==
    y >= 0 /\ y < height - 1 /\ x >= 0 /\ x < width - 1

Interior(x, y, width, height) ==
    y >= 1 /\ y < height - 1 /\ x >= 1 /\ x < width - 1

EnergyAt(pixels, width, height, channels, x, y, oob) ==
    IF Interior(x, y, width, height)
    THEN LET gx == Convolve(sobel_x, pixels, width, channels, x, y, oob, 0)
             gy == Convolve(sobel_y, pixels, width, channels, x, y, oob, 0)
         IN  Isqrt(gx * gx + gy * gy)
    ELSE 0

EnergyMatrix(pixels, width, height, channels, oob) ==
    [y \in 0..(height - 1) |->
        [x \in 0..(width - 1) |-> EnergyAt(pixels, width, height, channels, x, y, oob)]]

\* the largest index read is that of the last sample of the bottom-right window
ReadsPastBuffer(pixels, width, height, channels) ==
    /\ width >= 3 /\ height >= 3
    /\ ((height - 1) * width + (width - 1)) * channels + 2 \notin DOMAIN pixels

Energy(matrix) == [status |-> "ok", energy |-> matrix]

EnergyCrash == [status |-> "crash", energy |-> Vec(0, 0)]

\* return {} of the GPU backend
EnergyEmpty == [status |-> "empty", energy |-> Vec(0, 0)]

\* the channel count is not checked: with fewer than 3 samples per pixel the
\* last windows read past the buffer, which crashes or yields some byte
calculate_energy(pixels, width, height, channels) ==
    IF ReadsPastBuffer(pixels, width, height, channels)
    THEN {EnergyCrash} \cup
         {Energy(EnergyMatrix(pixels, width, height, channels, b)) : b \in {0, MaxByte}}
    ELSE {Energy(EnergyMatrix(pixels, width, height, channels, 0))}

(***************************************************************************)
(* GPUEnergy: initialize, cleanup, calculate_energy_gpu                    *)
(*                                                                         *)
(* A GL object is <<kind, name>>; gl_objects holds the objects alive on    *)
(* the device.  glGen* and glCreateProgram return the lowest name of the   *)
(* kind that is not in use.  The vertex and fragment shader objects are    *)
(* created and deleted within initialize on every path and are not kept.   *)
(* gpu_call records the last call into the module.                         *)
(***************************************************************************)
InUse(kind) == {n \in 1..MaxGLNames : <<kind, n>> \in gl_objects}

Free(kind) == (1..MaxGLNames) \ InUse(kind)

Lowest(S) == CHOOSE n \in S : \A m \in S : n <= m

\* the name glGen* returns, and the one a second call returns
Gen(kind) == Lowest(Free(kind))

Gen2(kind) == Lowest(Free(kind) \ {Gen(kind)})

CanAllocate ==
    /\ Free("program") # {} /\ Free("vao") # {} /\ Free("buffer") # {}
    /\ Free("framebuffer") # {} /\ Cardinality(Free("texture")) >= 2

\* the failures of lines 109-136, all before anything is stored or kept
EarlyFailures == {"gl_version", "vertex_source", "vertex_compile",
                  "fragment_source", "fragment_compile"}

Handles == <<shader_program, input_texture, framebuffer, energy_texture, quad_vao, quad_vbo>>

notGpu == <<seamVars, removeVars, energyVars, driverVars>>

\* the last call into the module, with what initialize returned
Initialize(returned) == [op |-> "initialize", returned |-> returned]

\* lines 104-106
InitializeAlreadyReady ==
    /\ initialized
    /\ gpu_call' = Initialize(TRUE)
    /\ UNCHANGED <<Handles, initialized, gl_objects, gl_input_image, gl_energy_image>>
    /\ UNCHANGED notGpu

\* lines 109-136
InitializeFailsEarly ==
    /\ ~initialized
    /\ \E failure \in EarlyFailures : gpu_call' = Initialize(FALSE)
    /\ UNCHANGED <<Handles, initialized, gl_objects, gl_input_image, gl_energy_image>>
    /\ UNCHANGED notGpu

\* lines 139-145: create_shader_program deleted the program and returned 0
InitializeLinkFails ==
    /\ ~initialized
    /\ shader_program' = 0
    /\ gpu_call' = Initialize(FALSE)
    /\ UNCHANGED <<input_texture, framebuffer, energy_texture, quad_vao, quad_vbo,
                   initialized, gl_objects, gl_input_image, gl_energy_image>>
    /\ UNCHANGED notGpu

\* lines 139-170: everything is created; the uniform lookup decides the result
InitializeAllocates(uniforms_found) ==
    /\ ~initialized
    /\ CanAllocate
    /\ shader_program' = Gen("program")
    /\ quad_vao' = Gen("vao")
    /\ quad_vbo' = Gen("buffer")
    /\ input_texture' = Gen("texture")
    /\ energy_texture' = Gen2("texture")
    /\ framebuffer' = Gen("framebuffer")
    /\ gl_objects' = gl_objects \cup
          {<<"program", Gen("program")>>, <<"vao", Gen("vao")>>,
           <<"buffer", Gen("buffer")>>, <<"texture", Gen("texture")>>,
           <<"texture", Gen2("texture")>>, <<"framebuffer", Gen("framebuffer")>>}
    /\ initialized' = uniforms_found
    /\ gpu_call' = Initialize(uniforms_found)
    /\ UNCHANGED <<gl_input_image, gl_energy_image>>
    /\ UNCHANGED notGpu

InitializeUniformsMissing == InitializeAllocates(FALSE)

InitializeSucceeds == InitializeAllocates(TRUE)

CleanupKeepsReady ==
    /\ IF ~initialized
       THEN UNCHANGED <<Handles, gl_objects, gl_input_image, gl_energy_image>>
       ELSE /\ gl_objects' = gl_objects \
                  {<<"program", shader_program>>, <<"texture", input_texture>>,
                   <<"texture", energy_texture>>, <<"framebuffer", framebuffer>>,
                   <<"vao", quad_vao>>, <<"buffer", quad_vbo>>}
            /\ shader_program' = 0 /\ input_texture' = 0 /\ energy_texture' = 0
            /\ framebuffer' = 0 /\ quad_vao' = 0 /\ quad_vbo' = 0
            /\ gl_input_image' = No /\ gl_energy_image' = No
    /\ UNCHANGED initialized
    /\ gpu_call' = [op |-> "cleanup"]
    /\ UNCHANGED notGpu

\* lines 172-209
Cleanup ==
    /\ IF ~initialized
       THEN UNCHANGED <<Handles, initialized, gl_objects, gl_input_image, gl_energy_image>>
       ELSE /\ gl_objects' = gl_objects \
                  {<<"program", shader_program>>, <<"texture", input_texture>>,
                   <<"texture", energy_texture>>, <<"framebuffer", framebuffer>>,
                   <<"vao", quad_vao>>, <<"buffer", quad_vbo>>}
            /\ shader_program' = 0 /\ input_texture' = 0 /\ energy_texture' = 0
            /\ framebuffer' = 0 /\ quad_vao' = 0 /\ quad_vbo' = 0
            /\ initialized' = FALSE
            /\ gl_input_image' = No /\ gl_energy_image' = No
    /\ gpu_call' = [op |-> "cleanup"]
    /\ UNCHANGED notGpu

\* the fragment shader's render pass over the input texture: the energy of the
\* reference convolution in the red channel of an RGBA float image
FragmentShader(image) ==
    LET e == EnergyMatrix(image.pixels, image.width, image.height, 3, 0)
    IN  [i \in 0..(image.width * image.height * 4 - 1) |->
            IF i % 4 = 0 THEN e[(i \div 4) \div image.width][(i \div 4) % image.width]
            ELSE 0]

\* lines 289-295: the red channel of the pixels read back
ReadBack(energy_data, width, height) ==
    [y \in 0..(height - 1) |-> [x \in 0..(width - 1) |-> energy_data[(y * width + x) * 4]]]

\* the image the caller holds and passes to the backends
CallerImage == PaletteImage(en_width * en_height * en_channels, en_seed)

\* the last call into the module, with the error it logged
CalculateEnergyGpu(error) == [op |-> "calculate_energy_gpu", error |-> error]

\* lines 217-225: the error a call is turned away with, "none" if it is not
RejectionChannelsOnly(ready, channels) ==
    IF channels # 3 THEN "channels" ELSE "none"

Rejection(ready, channels) ==
    IF ~ready THEN "not_initialized"
    ELSE IF channels # 3 THEN "channels" ELSE "none"

\* lines 217-225: the two rejections, which touch nothing
CalculateEnergyGpuRejects ==
    /\ Rejection(initialized, en_channels) # "none"
    /\ en_backend' = "gpu"
    /\ en_result' = EnergyEmpty
    /\ gpu_call' = CalculateEnergyGpu(Rejection(initialized, en_channels))
    /\ UNCHANGED <<Handles, initialized, gl_objects, gl_input_image, gl_energy_image>>
    /\ UNCHANGED <<en_seed, en_width, en_height, en_channels, callVars>>
    /\ UNCHANGED <<seamVars, removeVars, driverVars>>

\* lines 227-299: upload, render into the energy texture, read back; the
\* device decides whether the framebuffer is complete (line 254)
CalculateEnergyGpuRuns(complete) ==
    /\ Rejection(initialized, en_channels) = "none"
    /\ LET image == [width |-> en_width, height |-> en_height, pixels |-> CallerImage]
           rendered == FragmentShader(image)
       IN  /\ gl_input_image' = image
           /\ gl_energy_image' = [width |-> en_width, height |-> en_height,
                                  data |-> IF complete THEN rendered
                                           ELSE Vec(en_width * en_height * 4, 0)]
           /\ en_result' = IF complete THEN Energy(ReadBack(rendered, en_width, en_height))
                           ELSE EnergyEmpty
    /\ en_backend' = "gpu"
    /\ gpu_call' = CalculateEnergyGpu(IF complete THEN "none" ELSE "framebuffer")
    /\ UNCHANGED <<Handles, initialized, gl_objects>>
    /\ UNCHANGED <<en_seed, en_width, en_height, en_channels, callVars>>
    /\ UNCHANGED <<seamVars, removeVars, driverVars>>

CalculateEnergyGpuIncomplete == CalculateEnergyGpuRuns(FALSE)

CalculateEnergyGpuRenders == CalculateEnergyGpuRuns(TRUE)

\* a call of the CPU backend
CalculateEnergyCpu ==
    /\ en_backend' = "cpu"
    /\ en_result' \in calculate_energy(CallerImage, en_width, en_height, en_channels)
    /\ UNCHANGED <<en_seed, en_width, en_height, en_channels, callVars>>
    /\ UNCHANGED <<gpuVars, seamVars, removeVars, driverVars>>

(***************************************************************************)
(* Specification SpecSeam: one call of find_low_energy_seam on any matrix  *)
(***************************************************************************)
IdleSeam ==
    /\ sf_width = 0 /\ sf_height = 0 /\ sf_energy = Vec(0, 0)
    /\ sf_outcome = [a \in Algorithms |-> No]

IdleRemove ==
    /\ rs_width = 0 /\ rs_height = 0 /\ rs_channels = 0 /\ rs_seed = 0
    /\ rs_pixels = Vec(0, 0) /\ rs_seam = Vec(0, 0) /\ rs_result = No

IdleGpu ==
    /\ shader_program = 0 /\ input_texture = 0 /\ framebuffer = 0
    /\ energy_texture = 0 /\ quad_vao = 0 /\ quad_vbo = 0
    /\ initialized = FALSE /\ gl_objects = {}
    /\ gl_input_image = No /\ gl_energy_image = No /\ gpu_call = No

Callers == {1, 2}

IdleCalls ==
    /\ call_pc = [c \in Callers |-> "idle"] /\ call_image = [c \in Callers |-> No]
    /\ call_result = [c \in Callers |-> No] /\ serialized = TRUE

IdleEnergy ==
    /\ en_backend = "none" /\ en_seed = 0 /\ en_width = 0 /\ en_height = 0
    /\ en_channels = 0 /\ en_result = No
    /\ IdleCalls

NoSteps == [energy |-> 0, seam |-> 0, remove |-> 0]

NoLocals ==
    /\ rw_current_pixels = Vec(0, 0) /\ rw_current_width = 0 /\ rw_seams_to_remove = 0
    /\ rw_seams_removed = 0 /\ rw_progress_update_interval = 0 /\ rw_batch_start_time = 0
    /\ rw_start_time = 0 /\ rw_energy = Vec(0, 0) /\ rw_seam = Vec(0, 0) /\ rw_result = No

IdleDriver ==
    /\ rw_pixels = Vec(0, 0) /\ rw_original_width = 0 /\ rw_height = 0 /\ rw_channels = 0
    /\ rw_target_width = 0 /\ rw_algorithm = "GREEDY"
    /\ pc = "idle" /\ NoLocals
    /\ now = 0 /\ spdlog_level = "info" /\ last_log = No
    /\ steps = NoSteps /\ run = 0 /\ first_run = No

Clamp0(n) == IF n < 0 THEN 0 ELSE n

\* the matrices a caller can hand over: height rows of width cells
EnergyMatrices(width, height) ==
    [0..(Clamp0(height) - 1) -> [0..(Clamp0(width) - 1) -> 0..MaxEnergy]]

\* a row of a matrix written as a tuple
Row(t) == [x \in 0..(Len(t) - 1) |-> t[x + 1]]

\* the matrix of the concrete scenario: 3 rows of 4 cells
ScenarioEnergy ==
    Row(<<Row(<<9, 1, 9, 9>>), Row(<<9, 9, 1, 9>>), Row(<<9, 1, 9, 9>>)>>)

\* any small matrix, or the matrix of the scenario
InitSeam ==
    /\ \/ /\ sf_width \in -1..MaxEW
          /\ sf_height \in -1..MaxEH
          /\ Clamp0(sf_width) * Clamp0(sf_height) <= MaxCells
          /\ sf_energy \in EnergyMatrices(sf_width, sf_height)
       \/ /\ sf_width = 4 /\ sf_height = 3
          /\ sf_energy = ScenarioEnergy
    /\ sf_outcome = [a \in Algorithms |-> No]
    /\ IdleRemove /\ IdleGpu /\ IdleEnergy /\ IdleDriver

FindSeam(algorithm) ==
    /\ sf_outcome[algorithm] = No
    /\ \E o \in find_low_energy_seam(sf_energy, sf_width, sf_height, algorithm) :
           sf_outcome' = [sf_outcome EXCEPT ![algorithm] = o]
    /\ UNCHANGED <<sf_energy, sf_width, sf_height>>
    /\ UNCHANGED <<removeVars, gpuVars, energyVars, driverVars>>

FindSeamGreedy == FindSeam("GREEDY")

FindSeamDynamic == FindSeam("DYNAMIC")

NextSeam == FindSeamGreedy \/ FindSeamDynamic

SpecSeam == InitSeam /\ [][NextSeam]_vars

(***************************************************************************)
(* Properties of the seam finder (SpecSeam)                                *)
(***************************************************************************)
ProperMatrix == sf_width >= 1 /\ sf_height >= 1

Called(algorithm) == sf_outcome[algorithm] # No

SeamValid(seam, width, height) ==
    /\ DOMAIN seam = 0..(height - 1)
    /\ \A y \in 0..(height - 1) : seam[y] \in 0..(width - 1)
    /\ \A y \in 1..(height - 1) : Abs(seam[y] - seam[y - 1]) <= 1

RECURSIVE SeamCostFrom(_, _, _)
SeamCostFrom(energy, seam, y) ==
    IF y \notin DOMAIN seam THEN 0
    ELSE energy[y][seam[y]] + SeamCostFrom(energy, seam, y + 1)

\* sum over y of energy[y][seam[y]]
SeamCost(energy, seam) == SeamCostFrom(energy, seam, 0)

\* every seam of the matrix: one x per row, in bounds, neighbours at most 1 apart
ValidSeams(width, height) ==
    {s \in [0..(height - 1) -> 0..(width - 1)] : SeamValid(s, width, height)}

IsMinOf(v, S) == v \in S /\ \A u \in S : v <= u

\* C4 (seam validity): on a matrix of width >= 1 and height >= 1 the seam
\* returned by GREEDY and by DYNAMIC has exactly height entries, each within
\* [0, width-1], and consecutive entries differ by at most 1.
C4_SeamValidity ==
    \A a \in Algorithms :
        (ProperMatrix /\ Called(a)) =>
            /\ sf_outcome[a].status = "ok"
            /\ SeamValid(sf_outcome[a].seam, sf_width, sf_height)

\* a 3x3 matrix on which both variants returned a seam that is not a straight column
C4_Witness ==
    /\ sf_width = 3 /\ sf_height = 3
    /\ \A a \in Algorithms :
          /\ Called(a) /\ sf_outcome[a].status = "ok"
          /\ sf_outcome[a].seam[0] # sf_outcome[a].seam[1]

\* C6 (DYNAMIC is globally optimal): on a matrix of width >= 1 and height >= 1
\* the cost of the seam find_low_energy_seam_dyn returns is the minimum cost
\* over all valid seams, and is the minimum entry of the last row of the
\* cumulative-cost table.
C6_DynamicOptimal ==
    (ProperMatrix /\ Called("DYNAMIC")) =>
        LET cost == SeamCost(sf_energy, sf_outcome["DYNAMIC"].seam)
            last == DpTable(sf_energy, sf_width, sf_height)[sf_height - 1]
        IN  /\ IsMinOf(cost, {SeamCost(sf_energy, s) :
                                 s \in ValidSeams(sf_width, sf_height)})
            /\ IsMinOf(cost, {last[x] : x \in 0..(sf_width - 1)})

\* DYNAMIC returned a seam that bends in both directions and costs less than
\* the column it ends in
C6_Witness ==
    /\ sf_width = 3 /\ sf_height = 3 /\ Called("DYNAMIC")
    /\ LET seam == sf_outcome["DYNAMIC"].seam
       IN  /\ seam[0] # seam[1] /\ seam[1] # seam[2]
           /\ SeamCost(sf_energy, seam)
                < SeamCost(sf_energy, Vec(sf_height, seam[sf_height - 1]))

\* C7 (optimality bound): on the same matrix of width >= 1 and height >= 1 the
\* cost of the DYNAMIC seam is at most the cost of the GREEDY seam.
C7_DynamicAtMostGreedy ==
    (ProperMatrix /\ Called("DYNAMIC") /\ Called("GREEDY")) =>
        SeamCost(sf_energy, sf_outcome["DYNAMIC"].seam)
            <= SeamCost(sf_energy, sf_outcome["GREEDY"].seam)

\* both variants ran on one matrix and DYNAMIC found a strictly cheaper seam
C7_Witness ==
    /\ ProperMatrix /\ Called("DYNAMIC") /\ Called("GREEDY")
    /\ SeamCost(sf_energy, sf_outcome["DYNAMIC"].seam)
         < SeamCost(sf_energy, sf_outcome["GREEDY"].seam)

\* the columns next to x that exist, in the order of preference: x itself,
\* its left neighbour, its right neighbour
Candidates(x, width) ==
    SelectSeq(<<x, x - 1, x + 1>>, LAMBDA c : c \in 0..(width - 1))

\* the first of the candidates whose value in row is the least of theirs
RECURSIVE Preferred(_, _)
Preferred(row, cands) ==
    IF \A i \in 1..Len(cands) : row[cands[1]] <= row[cands[i]]
    THEN cands[1]
    ELSE Preferred(row, Tail(cands))

\* the lowest x at which row is least
LowestMin(row, width) ==
    CHOOSE x \in 0..(width - 1) :
        /\ \A k \in 0..(width - 1) : row[x] <= row[k]
        /\ \A k \in 0..(x - 1) : row[k] > row[x]

\* the GREEDY rule: from the lowest minimum of row 0 downward, the preferred
\* candidate next to the previous row's choice
GreedyRule(energy, width, height, seam) ==
    /\ DOMAIN seam = 0..(height - 1)
    /\ seam[0] = LowestMin(energy[0], width)
    /\ \A y \in 1..(height - 1) :
          seam[y] = Preferred(energy[y], Candidates(seam[y - 1], width))

\* C14 (GREEDY rule and tie-break): on every matrix of width >= 1 and
\* height >= 1 the GREEDY seam starts at the lowest x attaining the minimum of
\* row 0, and in each later row takes the candidate of minimum energy among
\* prev_x, prev_x-1, prev_x+1 within [0, width-1], prev_x preferred over
\* prev_x-1 and prev_x-1 over prev_x+1 among equals; on the matrix
\* [[9,1,9,9],[9,9,1,9],[9,1,9,9]] that is the seam [1,2,1].
C14_GreedyRule ==
    (ProperMatrix /\ Called("GREEDY")) =>
        /\ sf_outcome["GREEDY"].status = "ok"
        /\ GreedyRule(sf_energy, sf_width, sf_height, sf_outcome["GREEDY"].seam)
        /\ sf_energy = ScenarioEnergy =>
              sf_outcome["GREEDY"].seam = Row(<<1, 2, 1>>)

\* GREEDY ran on the matrix of the scenario and bent right, then left
C14_Witness ==
    /\ Called("GREEDY") /\ sf_energy = ScenarioEnergy
    /\ sf_outcome["GREEDY"].seam = Row(<<1, 2, 1>>)

\* the cumulative-cost table of the reference procedure
ReferenceDp(energy, width, height) ==
    LET dp[y \in 0..(height - 1)] ==
            [x \in 0..(width - 1) |->
                IF y = 0 THEN energy[0][x]
                ELSE energy[y][x]
                       + (CHOOSE m \in {dp[y - 1][k] : k \in {x - 1, x, x + 1} \cap 0..(width - 1)} :
                             \A k \in {x - 1, x, x + 1} \cap 0..(width - 1) : m <= dp[y - 1][k])]
    IN  dp

\* the seam of the reference procedure: the lowest minimum of the last row of
\* the table, and upward the preferred candidate of row y next to seam[y+1]
ReferenceSeam(energy, width, height, seam) ==
    LET dp == ReferenceDp(energy, width, height)
    IN  /\ DOMAIN seam = 0..(height - 1)
        /\ seam[height - 1] = LowestMin(dp[height - 1], width)
        /\ \A y \in 0..(height - 2) :
              seam[y] = Preferred(dp[y], Candidates(seam[y + 1], width))

\* C15 (DYNAMIC recurrence and tie-break): on every matrix of width >= 1 and
\* height >= 1 find_low_energy_seam_dyn returns the seam of the reference
\* procedure: dp[0][x] = energy[0][x]; dp[y][x] = energy[y][x] + the minimum of
\* the in-range dp[y-1][x-1], dp[y-1][x], dp[y-1][x+1]; seam[height-1] the
\* lowest x attaining the minimum of dp[height-1]; and upward seam[y] the
\* minimum-dp[y] cell among x, x-1, x+1 in range (x = seam[y+1]), straight
\* above preferred, then upper left, then upper right.
C15_DynamicReference ==
    (ProperMatrix /\ Called("DYNAMIC")) =>
        /\ sf_outcome["DYNAMIC"].status = "ok"
        /\ DpTable(sf_energy, sf_width, sf_height)
              = ReferenceDp(sf_energy, sf_width, sf_height)
        /\ ReferenceSeam(sf_energy, sf_width, sf_height, sf_outcome["DYNAMIC"].seam)

\* DYNAMIC ran on a 3x3 matrix whose last table row has its minimum twice and
\* returned a seam that bends on the way up
C15_Witness ==
    /\ sf_width = 3 /\ sf_height = 3 /\ Called("DYNAMIC")
    /\ LET last == DpTable(sf_energy, sf_width, sf_height)[sf_height - 1]
           seam == sf_outcome["DYNAMIC"].seam
       IN  /\ Cardinality({x \in 0..2 : \A k \in 0..2 : last[x] <= last[k]}) >= 2
           /\ seam[0] # seam[1]

\* C10 (degenerate seam input): with width < 1 or height < 1 the call fails as
\* a reported error without reading any cell of the energy matrix, and with
\* width >= 1 and height >= 1 it never fails.
C10_DegenerateInputFails ==
    \A a \in Algorithms :
        Called(a) =>
            IF ProperMatrix
            THEN sf_outcome[a].status = "ok"
            ELSE sf_outcome[a].status = "error" /\ ~sf_outcome[a].read_energy

(***************************************************************************)
(* Specification SpecRemove: one call of remove_seam on any seam, with an  *)
(* entry too few or too many and with entries next to the columns          *)
(***************************************************************************)
\* the seams a caller can hand over: one entry less or more than the height,
\* entries from one left of the first column to one right of the last
Seams(width, height) ==
    UNION {[0..(n - 1) -> -1..width] : n \in (height - 1)..(height + 1)}

InitRemove ==
    /\ rs_width \in 1..MaxRW
    /\ rs_height \in 1..MaxRH
    /\ rs_channels \in ChannelCounts
    /\ rs_seed \in ImageSeeds
    /\ rs_pixels = Image(rs_width * rs_height * rs_channels, rs_seed, 1, 256)
    /\ rs_seam \in Seams(rs_width, rs_height)
    /\ rs_result = No
    /\ IdleSeam /\ IdleGpu /\ IdleEnergy /\ IdleDriver

RemoveSeam ==
    /\ rs_result = No
    /\ rs_result' \in RemoveOutcomes(rs_pixels, rs_width, rs_height, rs_channels, rs_seam)
    /\ UNCHANGED <<rs_pixels, rs_seed, rs_width, rs_height, rs_channels, rs_seam>>
    /\ UNCHANGED <<seamVars, gpuVars, energyVars, driverVars>>

NextRemove == RemoveSeam

SpecRemove == InitRemove /\ [][NextRemove]_vars

WellFormedSeam ==
    /\ rs_width >= 1
    /\ DOMAIN rs_seam = 0..(rs_height - 1)
    /\ \A y \in DOMAIN rs_seam : rs_seam[y] \in 0..(rs_width - 1)

\* column of the input that lands in column k of output row y
KeptColumn(y, k) == IF k < rs_seam[y] THEN k ELSE k + 1

\* C5 (removal shrinks by one column): for a buffer of width >= 1 and a seam of
\* height entries within [0, width-1], remove_seam returns (width-1)*height*channels
\* samples; output row y is input row y without the pixel at column seam[y], the
\* other pixels in their order with their channel samples contiguous and
\* unchanged; and the input buffer still holds the image it was given.
C5_RemovalShrinksByOne ==
    (rs_result # No /\ WellFormedSeam) =>
        /\ rs_result.status = "ok"
        /\ DOMAIN rs_result.pixels = 0..((rs_width - 1) * rs_height * rs_channels - 1)
        /\ \A y \in 0..(rs_height - 1), k \in 0..(rs_width - 2), c \in 0..(rs_channels - 1) :
              rs_result.pixels[(y * (rs_width - 1) + k) * rs_channels + c]
                = rs_pixels[(y * rs_width + KeptColumn(y, k)) * rs_channels + c]
        /\ rs_pixels = Image(rs_width * rs_height * rs_channels, rs_seed, 1, 256)

\* C11 (malformed seam): remove_seam called with a seam whose length differs
\* from height, or with some seam[y] outside [0, width-1], fails with a bounds
\* error and never reads or writes outside its buffers.
C11_MalformedSeamFailsFast ==
    (rs_result # No /\ ~WellFormedSeam) =>
        rs_result.status = "error" /\ ~rs_result.out_of_bounds

\* a 3x3 RGB buffer lost a seam that bends and touches neither the first nor the
\* last column in every row
C5_Witness ==
    /\ rs_result # No /\ rs_width = 3 /\ rs_height = 3 /\ rs_channels = 3
    /\ WellFormedSeam
    /\ rs_seam[0] = 0 /\ rs_seam[1] = 1 /\ rs_seam[2] = 2
    /\ Len0(rs_result.pixels) = 18

(***************************************************************************)
(* Specification SpecEnergy: the two energy backends and the GPU lifecycle, *)
(* with one image in the caller's hands                                    *)
(***************************************************************************)
InitEnergy ==
    /\ en_seed \in PaletteSeeds
    /\ en_width \in 1..MaxW
    /\ en_height \in 1..MaxH
    /\ en_channels \in ChannelCounts
    /\ en_backend = "none" /\ en_result = No
    /\ IdleCalls
    /\ IdleGpu /\ IdleSeam /\ IdleRemove /\ IdleDriver

NextEnergy ==
    \/ InitializeAlreadyReady
    \/ InitializeFailsEarly
    \/ InitializeLinkFails
    \/ InitializeUniformsMissing
    \/ InitializeSucceeds
    \/ Cleanup
    \/ CalculateEnergyCpu
    \/ CalculateEnergyGpuRejects
    \/ CalculateEnergyGpuIncomplete
    \/ CalculateEnergyGpuRenders

SpecEnergy == InitEnergy /\ [][NextEnergy]_vars

\* C9 (unsupported channel count): a compute-energy call with channels # 3
\* fails, returning an empty result instead of an energy matrix, on the CPU
\* backend and on the GPU backend alike.
C9_UnsupportedChannelsFail ==
    (en_backend # "none" /\ en_channels # 3) => en_result.status = "empty"

(***************************************************************************)
(* Properties of the CPU energy backend (SpecEnergy)                       *)
(***************************************************************************)
CpuReturned == en_backend = "cpu" /\ en_result.status = "ok"

OnBorder(x, y, width, height) ==
    x = 0 \/ x = width - 1 \/ y = 0 \/ y = height - 1

\* C13 (zero-energy border): the matrix the CPU calculate_energy returns for
\* width >= 1 and height >= 1 has height rows of width entries; every cell of
\* row 0, of row height-1, of column 0 and of column width-1 is exactly 0, so
\* with width < 3 or height < 3 the whole matrix is 0; and every cell is >= 0.
C13_ZeroEnergyBorder ==
    CpuReturned =>
        LET e == en_result.energy
        IN  /\ DOMAIN e = 0..(en_height - 1)
            /\ \A y \in 0..(en_height - 1) :
                  /\ DOMAIN e[y] = 0..(en_width - 1)
                  /\ \A x \in 0..(en_width - 1) :
                        /\ e[y][x] >= 0
                        /\ OnBorder(x, y, en_width, en_height) => e[y][x] = 0
                        /\ (en_width < 3 \/ en_height < 3) => e[y][x] = 0

\* the matrix of a 3x3 RGB image came back with a positive centre inside a
\* border of zeros
C13_Witness ==
    /\ CpuReturned /\ en_width = 3 /\ en_height = 3 /\ en_channels = 3
    /\ en_result.energy[1][1] > 0
    /\ en_result.energy[0][1] = 0 /\ en_result.energy[1][2] = 0

(***************************************************************************)
(* Properties of the GPU backend's lifecycle (SpecEnergy)                  *)
(***************************************************************************)
\* the operation of a recorded call
CallOp(call) == IF call = No THEN "none" ELSE call.op

\* this step is a call of calculate_energy_gpu
GpuCallStep == CallOp(gpu_call') = "calculate_energy_gpu" /\ en_backend' = "gpu"

DeviceState == <<Handles, initialized, gl_objects, gl_input_image, gl_energy_image>>

\* the backend is ready exactly when an initialize has succeeded and no
\* cleanup has been called since
ReadyTracksCalls ==
    initialized' = IF gpu_call' = Initialize(TRUE) THEN TRUE
                   ELSE IF CallOp(gpu_call') = "cleanup" THEN FALSE
                   ELSE initialized

NotReadyStep ==
    /\ ReadyTracksCalls
    /\ (GpuCallStep /\ ~initialized) =>
          /\ en_result' = EnergyEmpty
          /\ gpu_call'.error = "not_initialized"
          /\ UNCHANGED DeviceState
    /\ (GpuCallStep /\ initialized) => gpu_call'.error # "not_initialized"

\* C12 (backend not ready): after any sequence of initialize, cleanup and
\* calculate_energy_gpu calls, a calculate_energy_gpu call made when no
\* initialize has succeeded since the start or since the last cleanup returns
\* an empty result and changes no device resource or GL state, and a call
\* made after a successful initialize with no cleanup since is not rejected
\* as not ready.
C12_BackendNotReady == [][NotReadyStep]_vars

\* a call on a 3-channel image was turned away as not ready while objects of
\* an initialize that failed at the uniform lookup are alive on the device
C12_Witness ==
    /\ gpu_call = CalculateEnergyGpu("not_initialized")
    /\ en_channels = 3 /\ en_result = EnergyEmpty
    /\ ~initialized /\ gl_objects # {}

\* the six resources of the module, as GL objects
ModuleObjects ==
    {<<"program", shader_program>>, <<"texture", input_texture>>,
     <<"texture", energy_texture>>, <<"framebuffer", framebuffer>>,
     <<"vao", quad_vao>>, <<"buffer", quad_vbo>>}

ReadyHasResources ==
    initialized =>
        /\ shader_program # 0 /\ input_texture # 0 /\ energy_texture # 0
        /\ framebuffer # 0 /\ quad_vao # 0 /\ quad_vbo # 0
        /\ ModuleObjects \subseteq gl_objects
        /\ Cardinality(ModuleObjects) = 6

\* the last call recorded after the step is an initialize and the backend was
\* ready before it: it returned true and nothing of the device has changed
InitializeWhileReadyStep ==
    (initialized /\ CallOp(gpu_call') = "initialize") =>
        /\ gpu_call' = Initialize(TRUE)
        /\ UNCHANGED DeviceState

\* C21 (implicit): in every state reachable by any sequence of initialize,
\* cleanup and calculate_energy_gpu calls, the backend being ready implies
\* that the shader program, the input texture, the energy texture, the
\* framebuffer, the quad VAO and the quad VBO are allocated with non-zero
\* handles; and initialize called while ready returns true without
\* allocating, releasing or changing any resource.
C21_ReadyImpliesResources ==
    /\ []ReadyHasResources
    /\ [][InitializeWhileReadyStep]_vars

\* initialize was the last call, made while the backend was ready and held a
\* rendered image, next to objects an earlier failed initialize left behind
C21_Witness ==
    /\ initialized /\ gpu_call = Initialize(TRUE)
    /\ gl_energy_image # No
    /\ Cardinality(gl_objects) > 6

\* C18 (cleanup releases everything): after any sequence of initialize
\* (successful or failing at any step), calculate_energy_gpu and cleanup calls,
\* once cleanup has returned none of the six device resources created by an
\* earlier initialize remains allocated, all module handles are 0 and the
\* backend is not ready.
C18_CleanupReleasesEverything ==
    CallOp(gpu_call) = "cleanup" =>
        /\ gl_objects = {}
        /\ Handles = <<0, 0, 0, 0, 0, 0>>
        /\ ~initialized

(***************************************************************************)
(* Specification SpecReentrant: two callers of calculate_energy_gpu on the *)
(* one module state.  A call is four steps: the checks (lines 217-225),    *)
(* the uploads and the framebuffer (233-260), the render pass (262-277)    *)
(* and the read back (279-299).  Callers that take turns (serialized)      *)
(* enter only when no other call is in flight, and call cleanup only then. *)
(***************************************************************************)
enVars == <<en_backend, en_seed, en_width, en_height, en_channels, en_result>>

\* the images the callers hold: RGB, the two largest widths, full height
CallerImages ==
    {[width |-> w, height |-> MaxH, pixels |-> PaletteImage(w * MaxH * 3, seed)] :
        w \in (MaxW - 1)..MaxW, seed \in PaletteSeeds}

\* contents GL leaves undefined: texture storage allocated without data
\* (line 244), a render or a read whose size is not the texture's
Undefined(n) == {Vec(n, 0), Vec(n, MaxByte)}

InFlight(c) == call_pc[c] \in {"upload", "draw", "read"}

\* the callers' lock, if they use one, is free
Unlocked == serialized => \A c \in Callers : ~InFlight(c)

SameSize(a, b) == a.width = b.width /\ a.height = b.height

\* glTexImage2D of line 236: the image the input texture holds afterwards
UploadedKeepsSameSize(image) ==
    IF gl_input_image # No /\ SameSize(gl_input_image, image) THEN gl_input_image
    ELSE image

Uploaded(image) == image

Finishes(c, result) ==
    /\ call_result' = [call_result EXCEPT ![c] = result]
    /\ call_pc' = [call_pc EXCEPT ![c] = "done"]

\* lines 217-225
CallEnters(c) ==
    /\ call_pc[c] = "idle"
    /\ Unlocked
    /\ LET rejection == Rejection(initialized, 3)
       IN  IF rejection # "none"
           THEN /\ Finishes(c, EnergyEmpty)
                /\ gpu_call' = CalculateEnergyGpu(rejection)
           ELSE /\ call_pc' = [call_pc EXCEPT ![c] = "upload"]
                /\ UNCHANGED <<call_result, gpu_call>>
    /\ UNCHANGED <<DeviceState, call_image, serialized, enVars>>
    /\ UNCHANGED <<seamVars, removeVars, driverVars>>

\* lines 233-260: after a cleanup the handles are 0 and the uploads reach no
\* texture of the module
CallUploads(c) ==
    /\ call_pc[c] = "upload"
    /\ IF input_texture = 0
       THEN UNCHANGED <<gl_input_image, gl_energy_image>>
       ELSE /\ gl_input_image' = Uploaded(call_image[c])
            /\ \E data \in Undefined(call_image[c].width * call_image[c].height * 4) :
                  gl_energy_image' = [width |-> call_image[c].width,
                                      height |-> call_image[c].height, data |-> data]
    /\ \E complete \in BOOLEAN :
          IF complete
          THEN /\ call_pc' = [call_pc EXCEPT ![c] = "draw"]
               /\ UNCHANGED <<call_result, gpu_call>>
          ELSE /\ Finishes(c, EnergyEmpty)
               /\ gpu_call' = CalculateEnergyGpu("framebuffer")
    /\ UNCHANGED <<Handles, initialized, gl_objects, call_image, serialized, enVars>>
    /\ UNCHANGED <<seamVars, removeVars, driverVars>>

\* lines 262-277: the viewport is the caller's; the pass renders the input
\* texture into the energy texture as they are now
CallDraws(c) ==
    /\ call_pc[c] = "draw"
    /\ IF gl_energy_image = No
       THEN UNCHANGED gl_energy_image
       ELSE \E data \in
                  IF SameSize(gl_energy_image, call_image[c])
                       /\ SameSize(gl_input_image, call_image[c])
                  THEN {FragmentShader(gl_input_image)}
                  ELSE Undefined(gl_energy_image.width * gl_energy_image.height * 4) :
                gl_energy_image' = [gl_energy_image EXCEPT !.data = data]
    /\ call_pc' = [call_pc EXCEPT ![c] = "read"]
    /\ UNCHANGED <<Handles, initialized, gl_objects, gl_input_image, gpu_call>>
    /\ UNCHANGED <<call_image, call_result, serialized, enVars>>
    /\ UNCHANGED <<seamVars, removeVars, driverVars>>

\* lines 279-299: width x height pixels of the framebuffer's attachment
CallReadsBack(c) ==
    /\ call_pc[c] = "read"
    /\ \E energy_data \in
              IF gl_energy_image # No /\ SameSize(gl_energy_image, call_image[c])
              THEN {gl_energy_image.data}
              ELSE Undefined(call_image[c].width * call_image[c].height * 4) :
          Finishes(c, Energy(ReadBack(energy_data, call_image[c].width,
                                      call_image[c].height)))
    /\ gpu_call' = CalculateEnergyGpu("none")
    /\ UNCHANGED <<DeviceState, call_image, serialized, enVars>>
    /\ UNCHANGED <<seamVars, removeVars, driverVars>>

\* cleanup, called under the lock if there is one
CleanupByCaller == Unlocked /\ Cleanup

InitReentrant ==
    /\ call_image \in [Callers -> CallerImages]
    /\ call_pc = [c \in Callers |-> "idle"]
    /\ call_result = [c \in Callers |-> No]
    /\ serialized \in BOOLEAN
    /\ en_backend = "none" /\ en_seed = 0 /\ en_width = 0 /\ en_height = 0
    /\ en_channels = 0 /\ en_result = No
    /\ IdleGpu /\ IdleSeam /\ IdleRemove /\ IdleDriver

NextReentrant ==
    \/ InitializeSucceeds
    \/ InitializeAlreadyReady
    \/ CleanupByCaller
    \/ \E c \in Callers : CallEnters(c)
    \/ \E c \in Callers : CallUploads(c)
    \/ \E c \in Callers : CallDraws(c)
    \/ \E c \in Callers : CallReadsBack(c)

SpecReentrant == InitReentrant /\ [][NextReentrant]_vars

\* what a call on this image returns when it runs alone
OwnEnergy(image) == Energy(ReadBack(FragmentShader(image), image.width, image.height))

\* C19 (the GPU backend is not reentrant): when the calls are serialized, the
\* result of each calculate_energy_gpu call depends only on its own arguments
\* (it is the energy of the caller's own image, or empty when the call was
\* turned away or the framebuffer was incomplete); when two calls, or a call
\* and cleanup, run unserialized on the shared textures and framebuffer, an
\* interleaving is reachable in which a call reads back the energy of the
\* other call's image.
C19_SerializedCallsAreIndependent ==
    serialized =>
        \A c \in Callers :
            call_pc[c] = "done" =>
                call_result[c] \in {EnergyEmpty, OwnEnergy(call_image[c])}

\* unserialized, caller 1 got back the energy of caller 2's image, which is
\* not that of its own
C19_Witness ==
    /\ ~serialized
    /\ call_pc[1] = "done" /\ call_pc[2] \in {"draw", "read", "done"}
    /\ call_result[1] = OwnEnergy(call_image[2])
    /\ call_result[1] # OwnEnergy(call_image[1])

(***************************************************************************)
(* SeamCarving::reduce_width_iteratively                                   *)
(***************************************************************************)
Max2(a, b) == IF a > b THEN a ELSE b

\* line 214
IsNoOp(target_width, original_width) == target_width >= original_width

\* line 220
IsInvalidTargetStrict(target_width) == target_width < 0

IsInvalidTarget(target_width) == target_width <= 0

\* std::vector(pixels, pixels + original_width * height * channels), lines 216, 227
BufferCopyNoChannels(pixels, original_width, height, channels) ==
    [i \in 0..(original_width * height - 1) |-> pixels[i]]

BufferCopy(pixels, original_width, height, channels) ==
    [i \in 0..(original_width * height * channels - 1) |-> pixels[i]]

\* line 234
ProgressInterval(seams_to_remove) == Max2(1, seams_to_remove \div 10)

\* line 241
LoopContinuesInclusive(current_width, target_width) == current_width >= target_width

LoopContinues(current_width, target_width) == current_width > target_width

\* line 244
ReportsProgress(seams_removed, interval, seams_to_remove) ==
    seams_removed % interval = 0 \/ seams_removed = seams_to_remove

\* lines 245-254: the line logged; the ETA is remaining seams times the average
ProgressLine(seams_removed, seams_to_remove, elapsed) ==
    [kind |-> "progress", removed |-> seams_removed, total |-> seams_to_remove,
     percent |-> (seams_removed * 100) \div seams_to_remove,
     eta_s |-> (((seams_to_remove - seams_removed) * elapsed) \div seams_removed) \div 1000]

\* lines 270-276: the width after the block and the line it logs, if any
TimingLogDecrements(current_width, seams_removed, level, duration) ==
    IF level = "debug" /\ duration > 50
    THEN [current_width |-> current_width - 1,
          line |-> [kind |-> "slow", iteration |-> seams_removed, ms |-> duration,
                    width |-> current_width]]
    ELSE [current_width |-> current_width, line |-> No]

TimingLog(current_width, seams_removed, level, duration) ==
    IF level = "debug" /\ duration > 50
    THEN [current_width |-> current_width,
          line |-> [kind |-> "slow", iteration |-> seams_removed, ms |-> duration,
                    width |-> current_width + 1]]
    ELSE [current_width |-> current_width, line |-> No]

\* what high_resolution_clock::now() can return when the last reading was t
ClockReadings(t) == {t, IF t + ClockStep > MaxClock THEN MaxClock ELSE t + ClockStep}

\* spdlog levels: the timing block runs at debug, not at info
LogLevels == {"debug", "info"}

\* samples per pixel the caller passes: main.cpp hands over the channel count
\* of the image file
DriverChannels == ChannelCounts

ReturnedPair(buffer, width) == [pixels |-> buffer, width |-> width]

\* lines 214-218
ReturnsCopy ==
    /\ pc = "call"
    /\ IsNoOp(rw_target_width, rw_original_width)
    /\ rw_result' = ReturnedPair(BufferCopy(rw_pixels, rw_original_width, rw_height,
                                            rw_channels), rw_original_width)
    /\ pc' = "returned"
    /\ UNCHANGED <<rw_current_pixels, rw_current_width, rw_seams_to_remove,
                   rw_seams_removed, rw_progress_update_interval, rw_batch_start_time,
                   rw_start_time, rw_energy, rw_seam>>
    /\ UNCHANGED <<argVars, envVars, steps, run, first_run>>
    /\ UNCHANGED <<seamVars, removeVars, gpuVars, energyVars>>

\* lines 220-224
ReturnsInvalid ==
    /\ pc = "call"
    /\ ~IsNoOp(rw_target_width, rw_original_width)
    /\ IsInvalidTarget(rw_target_width)
    /\ rw_result' = ReturnedPair(Vec(0, 0), 0)
    /\ pc' = "returned"
    /\ UNCHANGED <<rw_current_pixels, rw_current_width, rw_seams_to_remove,
                   rw_seams_removed, rw_progress_update_interval, rw_batch_start_time,
                   rw_start_time, rw_energy, rw_seam>>
    /\ UNCHANGED <<argVars, envVars, steps, run, first_run>>
    /\ UNCHANGED <<seamVars, removeVars, gpuVars, energyVars>>

\* lines 226-238
StartsLoop ==
    /\ pc = "call"
    /\ ~IsNoOp(rw_target_width, rw_original_width)
    /\ ~IsInvalidTarget(rw_target_width)
    /\ rw_current_pixels' = BufferCopy(rw_pixels, rw_original_width, rw_height, rw_channels)
    /\ rw_current_width' = rw_original_width
    /\ rw_seams_to_remove' = rw_original_width - rw_target_width
    /\ rw_seams_removed' = 0
    /\ rw_progress_update_interval' = ProgressInterval(rw_original_width - rw_target_width)
    /\ \E t \in ClockReadings(now) : now' = t /\ rw_batch_start_time' = t
    /\ last_log' = [kind |-> "starting", total |-> rw_original_width - rw_target_width,
                    width |-> rw_original_width, height |-> rw_height]
    /\ pc' = "loop"
    /\ UNCHANGED <<rw_start_time, rw_energy, rw_seam, rw_result, spdlog_level>>
    /\ UNCHANGED <<argVars, steps, run, first_run>>
    /\ UNCHANGED <<seamVars, removeVars, gpuVars, energyVars>>

\* lines 241-257: the loop test passes, the counter and the progress report,
\* and the reading of start_time
IterationBegins ==
    /\ pc = "loop"
    /\ LoopContinues(rw_current_width, rw_target_width)
    /\ rw_seams_removed' = rw_seams_removed + 1
    /\ \E current_time \in ClockReadings(now) :
          /\ last_log' =
                IF ReportsProgress(rw_seams_removed + 1, rw_progress_update_interval,
                                   rw_seams_to_remove)
                THEN ProgressLine(rw_seams_removed + 1, rw_seams_to_remove,
                                  current_time - rw_batch_start_time)
                ELSE last_log
          /\ \E t \in ClockReadings(current_time) : now' = t /\ rw_start_time' = t
    /\ pc' = "energy"
    /\ UNCHANGED <<rw_current_pixels, rw_current_width, rw_seams_to_remove,
                   rw_progress_update_interval, rw_batch_start_time, rw_energy, rw_seam,
                   rw_result, spdlog_level>>
    /\ UNCHANGED <<argVars, steps, run, first_run>>
    /\ UNCHANGED <<seamVars, removeVars, gpuVars, energyVars>>

\* the call of line 260 and what it can return
EnergyOfOriginal ==
    calculate_energy(rw_pixels, rw_original_width, rw_height, rw_channels)

EnergyOfCurrent ==
    calculate_energy(rw_current_pixels, rw_current_width, rw_height, rw_channels)

\* line 260
ComputesEnergy ==
    /\ pc = "energy"
    /\ \E e \in EnergyOfCurrent :
          /\ rw_energy' = e.energy
          /\ pc' = IF e.status = "ok" THEN "seam" ELSE "crashed"
    /\ steps' = [steps EXCEPT !.energy = @ + 1]
    /\ UNCHANGED <<rw_current_pixels, rw_current_width, rw_seams_to_remove,
                   rw_seams_removed, rw_progress_update_interval, rw_batch_start_time,
                   rw_start_time, rw_seam, rw_result>>
    /\ UNCHANGED <<argVars, envVars, run, first_run>>
    /\ UNCHANGED <<seamVars, removeVars, gpuVars, energyVars>>

\* line 263
FindsSeam ==
    /\ pc = "seam"
    /\ \E o \in find_low_energy_seam(rw_energy, rw_current_width, rw_height,
                                     rw_algorithm) :
          /\ rw_seam' = o.seam
          /\ pc' = IF o.status = "ok" THEN "remove" ELSE "crashed"
    /\ steps' = [steps EXCEPT !.seam = @ + 1]
    /\ UNCHANGED <<rw_current_pixels, rw_current_width, rw_seams_to_remove,
                   rw_seams_removed, rw_progress_update_interval, rw_batch_start_time,
                   rw_start_time, rw_energy, rw_result>>
    /\ UNCHANGED <<argVars, envVars, run, first_run>>
    /\ UNCHANGED <<seamVars, removeVars, gpuVars, energyVars>>

\* lines 266-276: the removal, the decrement, and the timing block at debug level
RemovesSeam ==
    /\ pc = "remove"
    /\ rw_current_pixels' = remove_seam(rw_current_pixels, rw_current_width, rw_height,
                                        rw_channels, rw_seam)
    /\ \E end_time \in ClockReadings(now) :
          LET timed == TimingLog(rw_current_width - 1, rw_seams_removed, spdlog_level,
                                 end_time - rw_start_time)
          IN  /\ now' = IF spdlog_level = "debug" THEN end_time ELSE now
              /\ rw_current_width' = timed.current_width
              /\ last_log' = IF timed.line = No THEN last_log ELSE timed.line
    /\ steps' = [steps EXCEPT !.remove = @ + 1]
    /\ pc' = "loop"
    /\ UNCHANGED <<rw_seams_to_remove, rw_seams_removed, rw_progress_update_interval,
                   rw_batch_start_time, rw_start_time, rw_energy, rw_seam, rw_result,
                   spdlog_level>>
    /\ UNCHANGED <<argVars, run, first_run>>
    /\ UNCHANGED <<seamVars, removeVars, gpuVars, energyVars>>

\* lines 241, 279-281: the loop test fails
Returns ==
    /\ pc = "loop"
    /\ ~LoopContinues(rw_current_width, rw_target_width)
    /\ rw_result' = ReturnedPair(rw_current_pixels, rw_current_width)
    /\ last_log' = [kind |-> "completed", width |-> rw_current_width, height |-> rw_height]
    /\ pc' = "returned"
    /\ UNCHANGED <<rw_current_pixels, rw_current_width, rw_seams_to_remove,
                   rw_seams_removed, rw_progress_update_interval, rw_batch_start_time,
                   rw_start_time, rw_energy, rw_seam>>
    /\ UNCHANGED <<now, spdlog_level, argVars, steps, run, first_run>>
    /\ UNCHANGED <<seamVars, removeVars, gpuVars, energyVars>>

\* the caller calls again with the same arguments (main.cpp, line 324), at
\* another time and possibly under another log level
CalledAgain ==
    /\ pc = "returned"
    /\ run = 1
    /\ first_run' = [result |-> rw_result, level |-> spdlog_level, clock |-> now]
    /\ run' = 2
    /\ spdlog_level' \in LogLevels
    /\ now' = 0
    /\ last_log' = No
    /\ steps' = NoSteps
    /\ pc' = "call"
    /\ rw_current_pixels' = Vec(0, 0) /\ rw_current_width' = 0 /\ rw_seams_to_remove' = 0
    /\ rw_seams_removed' = 0 /\ rw_progress_update_interval' = 0
    /\ rw_batch_start_time' = 0 /\ rw_start_time' = 0 /\ rw_energy' = Vec(0, 0)
    /\ rw_seam' = Vec(0, 0) /\ rw_result' = No
    /\ UNCHANGED argVars
    /\ UNCHANGED <<seamVars, removeVars, gpuVars, energyVars>>

(***************************************************************************)
(* Specification Spec: two calls of reduce_width_iteratively with the same *)
(* arguments                                                               *)
(***************************************************************************)
\* a small image with any target, or the one-row strip
DriverArguments ==
    \/ /\ rw_original_width \in 1..MaxDW
       /\ rw_height \in 1..MaxDH
       /\ rw_channels \in DriverChannels
       /\ rw_target_width \in -1..(MaxDW + 1)
    \/ /\ rw_original_width = WideW
       /\ rw_height = 1
       /\ rw_channels = 3
       /\ rw_target_width \in {1, WideW - 1}

Init ==
    /\ DriverArguments
    /\ rw_pixels \in {PaletteImage(rw_original_width * rw_height * rw_channels, seed) :
                         seed \in PaletteSeeds}
    /\ rw_algorithm \in Algorithms
    /\ spdlog_level \in LogLevels
    /\ now = 0 /\ last_log = No
    /\ pc = "call" /\ NoLocals
    /\ steps = NoSteps /\ run = 1 /\ first_run = No
    /\ IdleSeam /\ IdleRemove /\ IdleGpu /\ IdleEnergy

Next ==
    \/ ReturnsCopy
    \/ ReturnsInvalid
    \/ StartsLoop
    \/ IterationBegins
    \/ ComputesEnergy
    \/ FindsSeam
    \/ RemovesSeam
    \/ Returns
    \/ CalledAgain

Spec == Init /\ [][Next]_vars

\* one call that runs on: the thread is alone and nothing it waits for can
\* fail to come, so a step that can be taken is taken
NextLive ==
    \/ ReturnsCopy
    \/ ReturnsInvalid
    \/ StartsLoop
    \/ IterationBegins
    \/ ComputesEnergy
    \/ FindsSeam
    \/ RemovesSeam
    \/ Returns

LiveSpec == Init /\ [][NextLive]_vars /\ WF_vars(NextLive)

(***************************************************************************)
(* Properties of the driver (Spec, LiveSpec)                               *)
(***************************************************************************)
Returned == pc = "returned"

\* C1 (no-op law): a call with target_width >= original_width returns a buffer
\* byte-identical to the input, of original_width*height*channels samples, and
\* original_width, and runs no energy, seam-finding or seam-removal step.
C1_NoOpLaw ==
    (Returned /\ rw_target_width >= rw_original_width) =>
        /\ rw_result.pixels = rw_pixels
        /\ Len0(rw_result.pixels) = rw_original_width * rw_height * rw_channels
        /\ rw_result.width = rw_original_width
        /\ steps = NoSteps

\* a 3x3 RGB image came back whole from a call asking for a larger width
C1_Witness ==
    /\ Returned /\ rw_original_width = 3 /\ rw_height = 3 /\ rw_channels = 3
    /\ rw_target_width = rw_original_width + 1
    /\ Len0(rw_result.pixels) = 27

\* C2 (invalid target): a call with original_width >= 1 and target_width <= 0
\* returns an empty buffer and width 0, and runs no energy computation, seam
\* search or seam removal.
C2_InvalidTarget ==
    (Returned /\ rw_original_width >= 1 /\ rw_target_width <= 0) =>
        /\ rw_result.pixels = Vec(0, 0)
        /\ rw_result.width = 0
        /\ steps = NoSteps

\* a call with target width 0 on a 3-wide image returned
C2_Witness ==
    /\ Returned /\ rw_original_width = 3 /\ rw_target_width = 0
    /\ rw_algorithm = "DYNAMIC" /\ rw_result.width = 0

\* the width moves only as the loop prescribes: it starts at the original
\* width and each iteration, which ends with the removal step, takes exactly 1
WidthStepsByOne ==
    /\ (pc = "call" /\ pc' = "loop") => rw_current_width' = rw_original_width
    /\ pc = "remove" => rw_current_width' = rw_current_width - 1
    /\ pc \in {"loop", "energy", "seam"} => rw_current_width' = rw_current_width

\* C3 as stated (monotonic width): a call with target_width > 0, whatever the
\* original width, returns final_width = max(target_width, 1), and the current
\* width decreases by exactly 1 in each loop iteration from the original width.
C3_FinalWidthIsMaxOfTargetAnd1 ==
    /\ [](Returned /\ rw_target_width > 0 =>
              rw_result.width = Max2(rw_target_width, 1))
    /\ [][WidthStepsByOne]_vars

\* C3 as amended: a call with target_width > 0 returns final_width =
\* max(target_width, 1) when target_width <= original_width and original_width
\* when target_width > original_width; the current width decreases by exactly 1
\* in each loop iteration from the original width.
C3_MonotonicWidth ==
    /\ [](Returned /\ rw_target_width > 0 =>
              rw_result.width = IF rw_target_width <= rw_original_width
                                THEN Max2(rw_target_width, 1)
                                ELSE rw_original_width)
    /\ [][WidthStepsByOne]_vars

\* a call that took two or more iterations returned the target width
C3_Witness ==
    /\ Returned /\ rw_target_width > 0 /\ steps.remove >= 2
    /\ rw_original_width - rw_target_width = steps.remove
    /\ rw_result.width = rw_target_width

\* a call that has to remove seams: 0 < target_width < original_width
Reducing == 0 < rw_target_width /\ rw_target_width < rw_original_width

\* what holds at the head of the loop (line 241)
LoopHead ==
    pc = "loop" =>
        /\ rw_seams_removed = rw_original_width - rw_current_width
        /\ rw_target_width <= rw_current_width
        /\ rw_current_width <= rw_original_width

\* what a reducing call has done when it returns
ReturnedAtTarget ==
    (Returned /\ Reducing) =>
        /\ steps.remove = rw_original_width - rw_target_width
        /\ rw_seams_removed = rw_original_width - rw_target_width
        /\ rw_result.width = rw_target_width
        /\ Len0(rw_result.pixels) = rw_target_width * rw_height * rw_channels

\* C16 (reduction terminates at the target): every call with
\* 0 < target_width < original_width and height >= 1 eventually leaves the loop
\* after exactly original_width - target_width iterations, each removing one
\* seam, and returns final_width = target_width with a buffer of
\* target_width*height*channels samples; at every loop head seams_removed =
\* original_width - current_width and target_width <= current_width <=
\* original_width.
C16_TerminatesAtTarget ==
    /\ (pc = "call" /\ Reducing) ~> Returned
    /\ [](ReturnedAtTarget /\ LoopHead)

\* the same for the calls that pass at least the 3 samples per pixel that
\* calculate_energy reads
C16_TerminatesWithRgb ==
    /\ (pc = "call" /\ Reducing /\ rw_channels >= 3) ~> Returned
    /\ [](ReturnedAtTarget /\ LoopHead)

\* the three component calls come in the order energy, seam, removal, once
\* each per iteration
IterationOrder ==
    /\ pc = "loop" =>
          /\ steps.energy = rw_seams_removed /\ steps.seam = rw_seams_removed
          /\ steps.remove = rw_seams_removed
    /\ pc = "energy" =>
          /\ steps.energy = rw_seams_removed - 1 /\ steps.seam = rw_seams_removed - 1
          /\ steps.remove = rw_seams_removed - 1
    /\ pc = "seam" =>
          /\ steps.energy = rw_seams_removed /\ steps.seam = rw_seams_removed - 1
          /\ steps.remove = rw_seams_removed - 1
    /\ pc = "remove" =>
          /\ steps.energy = rw_seams_removed /\ steps.seam = rw_seams_removed
          /\ steps.remove = rw_seams_removed - 1

\* the energy in hand is that of the current buffer at the current width, and
\* the seam in hand was found on it by the algorithm of the call
FreshEnergyAndSeam ==
    /\ pc \in {"seam", "remove"} =>
          \E e \in calculate_energy(rw_current_pixels, rw_current_width, rw_height,
                                     rw_channels) :
              e.status = "ok" /\ rw_energy = e.energy
    /\ pc = "remove" =>
          \E o \in find_low_energy_seam(rw_energy, rw_current_width, rw_height,
                                         rw_algorithm) :
              o.status = "ok" /\ rw_seam = o.seam

\* the removal takes that seam out of that buffer, and the algorithm stays
RemovalUsesFreshSeam ==
    /\ pc = "remove" =>
          rw_current_pixels' = remove_seam(rw_current_pixels, rw_current_width,
                                           rw_height, rw_channels, rw_seam)
    /\ rw_algorithm' = rw_algorithm

\* C17 (fresh energy and seam per iteration): in every iteration the order is
\* energy, then seam, then removal; the seam removed from the current buffer
\* of width w was found on the energy matrix computed in that same iteration
\* from that same buffer at width w, with the algorithm passed to the call,
\* the same in every iteration; no energy matrix or seam of an earlier
\* iteration or of another width is used.
C17_FreshPerIteration ==
    /\ [](IterationOrder /\ FreshEnergyAndSeam)
    /\ [][RemovalUsesFreshSeam]_vars

\* the second iteration of a call on a 3x3 RGB image is about to remove the
\* seam DYNAMIC found on the energy of the 2-wide buffer
C17_Witness ==
    /\ pc = "remove" /\ steps.remove = 1 /\ rw_seams_removed = 2
    /\ rw_original_width = 3 /\ rw_height = 3 /\ rw_channels = 3
    /\ rw_algorithm = "DYNAMIC"
    /\ Len0(rw_energy[0]) = 2 /\ Len0(rw_seam) = 3

\* the input without its leftmost original_width - target_width columns
WithoutLeftColumns ==
    [i \in 0..(rw_target_width * rw_height * rw_channels - 1) |->
        LET c == i % rw_channels
            k == (i \div rw_channels) % rw_target_width
            y == (i \div rw_channels) \div rw_target_width
        IN  rw_pixels[(y * rw_original_width + k
                         + (rw_original_width - rw_target_width)) * rw_channels + c]]

\* C20 (implicit): with the CPU energy backend of reduce_width_iteratively
\* the seam found in every iteration is column 0 in every row, for GREEDY and
\* for DYNAMIC alike; hence for 0 < target_width < original_width the output
\* is the input with its leftmost original_width - target_width columns
\* deleted from every row, whichever the algorithm, so GREEDY and DYNAMIC
\* return byte-identical output for every input image.
C20_SeamIsColumnZero ==
    /\ pc = "remove" => rw_seam = Vec(rw_height, 0)
    /\ (Returned /\ Reducing) =>
          /\ rw_result.pixels = WithoutLeftColumns
          /\ rw_result.width = rw_target_width

\* DYNAMIC took two seams out of a 3x3 RGB image whose columns differ, and
\* what came back is its last column
C20_Witness ==
    /\ Returned /\ rw_algorithm = "DYNAMIC" /\ steps.remove = 2
    /\ rw_original_width = 3 /\ rw_height = 3 /\ rw_channels = 3
    /\ rw_target_width = 1
    /\ rw_pixels[0] # rw_pixels[6]
    /\ rw_result.pixels[0] = rw_pixels[6]

\* C8 (determinism): the second call with the same buffer, dimensions, target
\* width and algorithm returns the same bytes and the same width as the first,
\* whatever the clock read and whatever the log level was in either call.
C8_Determinism ==
    (Returned /\ run = 2) => rw_result = first_run.result

\* both calls removed seams and returned, under different log levels and with
\* different time elapsed
C8_Witness ==
    /\ Returned /\ run = 2 /\ steps.remove >= 2
    /\ first_run.level # spdlog_level
    /\ first_run.clock # now
    /\ rw_result = first_run.result

====
